---- MODULE Spec2Model ----
(***************************************************************************)
(* A model of the ppt_translator repository:                               *)
(*   src/multi_improved.py  translation adapter, font-fit estimator,       *)
(*                          document walker, exporter, orchestrator        *)
(*   src/app.py             the /translate request handler                 *)
(*                                                                         *)
(* Strings that the code trims, lower-cases or compares are sequences of   *)
(* one-character strings, so that strip() and lower() are computed.        *)
(* Font sizes are integers counted in tenths of a point (120 = 12.0pt).    *)
(***************************************************************************)
EXTENDS Integers, Sequences, FiniteSets, TLC

VARIABLES
    \* ---- one /translate request, or one direct call of translate_pptx_multi
    pc,                 \* position of the request
    request,            \* the form and file of the HTTP request (handler entry)
    args,               \* the arguments translate_pptx_multi is called with
    languages,          \* translate_pptx_multi: languages (line 395)
    normalized_formats, \* translate_pptx_multi: normalized_formats (line 399)
    idx,                \* index of the next language of the for loop (line 415)
    translations,       \* the dict translations, in insertion order (line 412)
    errors,             \* the list errors (line 413)
    zip_path,           \* summary["zip_path"]: TRUE when set, FALSE when None
    raised,             \* the exception translate_pptx_multi raised to its caller, or "none"
    response,           \* what app.translate answered, or NoResponse
    \* ---- process-wide globals of multi_improved.py
    libreoffice_checked,    \* _libreoffice_checked (line 49)
    libreoffice_available,  \* _libreoffice_available (line 50)
    \* ---- the file system
    input_saved,        \* the input file exists
    root_exists,        \* the output root directory exists
    dirs,               \* the per-language directories under the output root
    files,              \* the files under the output root, as <<language, extension>>
    archive,            \* the entries of the zip beside the output root, or NoArchive
    \* ---- what has happened (history, read by the properties only)
    walker_calls,       \* the languages translate_pptx was invoked for, in order
    convert_calls,      \* the languages _libreoffice_convert was invoked for, in order
    raised_at,          \* loop positions whose try body raised (lines 441-443)
    returned_at,        \* loop positions whose try body ran to line 438
    pdf_failed_at,      \* loop positions whose PDF conversion raised (lines 435-436)
    saved_at,           \* loop positions at which translate_pptx saved its document
    step_convert,       \* what _libreoffice_convert did in the iteration just run
    \* ---- one call of translate_text, of calculate_font_size, of translate_pptx
    adapter,            \* a call of translate_text: its arguments, then its result
    fit,                \* a call of calculate_font_size: its arguments, then its result
    walker,             \* a run of translate_pptx over a document
    \* ---- one process over several calls, one server over several requests
    probe,              \* the calls of _ensure_libreoffice_available made so far
    server              \* app.py serving /translate requests on threads

vars == <<pc, request, args, languages, normalized_formats, idx, translations,
          errors, zip_path, raised, response, libreoffice_checked,
          libreoffice_available, input_saved, root_exists, dirs, files, archive,
          walker_calls, convert_calls, raised_at, returned_at, pdf_failed_at,
          saved_at, step_convert, adapter, fit, walker,
          probe, server>>

(***************************************************************************)
(* Bounds of the model.                                                    *)
(***************************************************************************)
MaxLangs == 3
MaxTextLen == 3
MaxShapes == 2
MaxRuns == 2
MaxCalls == 4
MaxClock == 6

(***************************************************************************)
(* Strings as sequences of characters.                                     *)
(***************************************************************************)
SeqsUpTo(S, n) == UNION {[1..k -> S] : k \in 0..n}

RECURSIVE LStrip(_)
LStrip(s) == IF s # <<>> /\ Head(s) = " " THEN LStrip(Tail(s)) ELSE s

RECURSIVE RStrip(_)
RStrip(s) ==
    IF s # <<>> /\ s[Len(s)] = " " THEN RStrip(SubSeq(s, 1, Len(s) - 1)) ELSE s

\* str.strip()
Strip(s) == RStrip(LStrip(s))

\* str.lstrip(".")
RECURSIVE LStripDot(_)
LStripDot(s) == IF s # <<>> /\ Head(s) = "." THEN LStripDot(Tail(s)) ELSE s

LowerChar(c) ==
    CASE c = "P" -> "p"
      [] c = "D" -> "d"
      [] c = "F" -> "f"
      [] c = "T" -> "t"
      [] c = "X" -> "x"
      [] c = "L" -> "l"
      [] c = "E" -> "e"
      [] OTHER -> c

\* str.lower()
Lower(s) == [i \in DOMAIN s |-> LowerChar(s[i])]

\* `x in list`
InSeq(x, s) == \E i \in DOMAIN s : s[i] = x

PPTX == <<"p", "p", "t", "x">>
PDF == <<"p", "d", "f">>
DOCX == <<"d", "o", "c", "x">>
ES == <<"e", "s">>
FR == <<"f", "r">>

\* multi_improved.ALLOWED_FORMATS (line 29), app.ALLOWED_FORMATS (line 28)
ALLOWED_FORMATS == {PPTX, PDF}

\* app.ALLOWED_EXTENSIONS (line 25)
ALLOWED_EXTENSIONS == {PPTX}

\* LIBREOFFICE_CONVERT_OPTIONS["pdf"]["filters"] (line 33): two filter specs
LIBREOFFICE_FILTERS == <<"pdf:impress_pdf_Export", "pdf">>

(***************************************************************************)
(* Inputs.                                                                 *)
(***************************************************************************)
\* language codes as a caller of translate_pptx_multi may give them: bare,
\* padded, blank
RawLangs == {ES, <<" ", "f", "r", " ">>, <<" ">>}

\* language codes as a form may give them
FormLangs == {ES, <<" ", "e", "s", " ">>, FR, <<" ">>}

\* format lists as a caller may give them (<<>> stands for None or [] as well)
FormatInputs ==
    { <<>>,
      <<PDF>>,
      <<<<".", "P", "D", "F">>, PPTX, <<"P", "P", "T", "X">>>>,
      <<DOCX, PPTX>> }

\* format lists as a form may give them
FormFormats == FormatInputs \cup {<<<<" ">>>>}

\* uploaded file names: [dot |-> whether the name holds a ".", ext |-> what follows the last "."]
NoUpload == [present |-> FALSE, empty |-> FALSE, dot |-> FALSE, ext |-> <<>>]
Uploads ==
    { NoUpload,
      [present |-> TRUE, empty |-> TRUE, dot |-> FALSE, ext |-> <<>>],
      [present |-> TRUE, empty |-> FALSE, dot |-> FALSE, ext |-> <<>>],
      [present |-> TRUE, empty |-> FALSE, dot |-> TRUE, ext |-> <<"t", "x", "t">>],
      [present |-> TRUE, empty |-> FALSE, dot |-> TRUE, ext |-> PPTX],
      [present |-> TRUE, empty |-> FALSE, dot |-> TRUE, ext |-> <<"P", "P", "T", "X">>] }

NoFallback == <<"none">>
NoResponse == [status |-> 0, artifact |-> <<"none">>, warnings |-> <<>>]
NoArchive == {<<"no archive">>}

\* translate_pptx returns total_translated or 0 (lines 186, 193, 308, 311)
WalkerCounts == {2}

(***************************************************************************)
(* Helpers of the orchestrator and of the handler.                         *)
(***************************************************************************)
\* [lang.strip() for lang in target_langs if lang and lang.strip()]
\* (multi_improved.py line 395, app.py line 64)
RECURSIVE strip_languages(_)
strip_languages(target_langs) ==
    IF target_langs = <<>> THEN <<>>
    ELSE LET lang == Head(target_langs)
             rest == strip_languages(Tail(target_langs))
         IN  IF lang # <<>> /\ Strip(lang) # <<>> THEN <<Strip(lang)>> \o rest ELSE rest

\* app.py lines 68-74: deduplicate while preserving order
RECURSIVE dedupe_onto(_, _)
dedupe_onto(normalized_langs, target_langs) ==
    IF target_langs = <<>> THEN normalized_langs
    ELSE LET lang == Head(target_langs)
         IN  dedupe_onto(IF InSeq(lang, normalized_langs) THEN normalized_langs
                         ELSE Append(normalized_langs, lang),
                         Tail(target_langs))

normalized_langs_of(target_langs) == dedupe_onto(<<>>, target_langs)

\* fmt.lower().strip().lstrip(".")
clean_format(fmt) == LStripDot(Strip(Lower(fmt)))

\* the loop of _normalize_formats (lines 331-335) and of app.py (lines 81-84)
RECURSIVE clean_formats_onto(_, _)
clean_formats_onto(normalized, formats) ==
    IF formats = <<>> THEN normalized
    ELSE LET cleaned == clean_format(Head(formats))
         IN  clean_formats_onto(IF cleaned # <<>> /\ ~InSeq(cleaned, normalized)
                                THEN Append(normalized, cleaned) ELSE normalized,
                                Tail(formats))

\* _normalize_formats: the list, or ValueError for a format outside ALLOWED_FORMATS
_normalize_formats(formats) ==
    IF formats = <<>> THEN [raised |-> FALSE, value |-> <<PPTX>>]
    ELSE LET cleaned == clean_formats_onto(<<>>, formats)
             normalized == IF cleaned = <<>> THEN <<PPTX>> ELSE cleaned
         IN  [raised |-> \E i \in DOMAIN normalized : normalized[i] \notin ALLOWED_FORMATS,
              value |-> normalized]

\* app.py lines 76-95: the handler's own normalisation; invalid lists the offenders
handler_formats(requested) ==
    LET requested_formats == IF requested = <<>> THEN <<PPTX>> ELSE requested
        cleaned == clean_formats_onto(<<>>, requested_formats)
        normalized == IF cleaned = <<>> THEN <<PPTX>> ELSE cleaned
    IN  [invalid |-> \E i \in DOMAIN normalized : normalized[i] \notin ALLOWED_FORMATS,
         value |-> normalized]

\* app.allowed_file
allowed_file(filename) == filename.dot /\ Lower(filename.ext) \in ALLOWED_EXTENSIONS

\* shutil.which consulted at every call, nothing cached
_ensure_libreoffice_available_uncached(checked, available, resolved) ==
    [checked |-> TRUE, available |-> resolved, raised |-> ~resolved, looked_up |-> TRUE]

\* _ensure_libreoffice_available: resolved is what shutil.which finds now
_ensure_libreoffice_available(checked, available, resolved) ==
    IF checked
    THEN [checked |-> TRUE, available |-> available, raised |-> ~available, looked_up |-> FALSE]
    ELSE [checked |-> TRUE, available |-> resolved, raised |-> ~resolved, looked_up |-> TRUE]

\* what one subprocess.run of the converter can do
ProcOutcomes == {"not_found", "nonzero", "zero_nofile", "zero_file"}

\* the for/else over the filters (lines 361-367): the first filter that exits 0
\* ends the loop; a converter that cannot be started raises out of it
RECURSIVE run_filters(_, _)
run_filters(proc, i) ==
    IF i > Len(LIBREOFFICE_FILTERS) THEN "nonzero"
    ELSE IF proc[i] = "nonzero" THEN run_filters(proc, i + 1)
    ELSE proc[i]

\* _libreoffice_convert(pptx_path, "pdf") for one language
_libreoffice_convert(language, fs, checked, available, resolved, proc) ==
    LET ensured == _ensure_libreoffice_available(checked, available, resolved)
        ran == run_filters(proc, 1)
        produced == IF ran = "zero_file" THEN fs \cup {<<language, PDF>>} ELSE fs
        base == [checked |-> ensured.checked, available |-> ensured.available]
    IN  IF ensured.raised
            THEN base @@ [raised |-> TRUE, kind |-> "unavailable", files |-> fs]
        ELSE IF ran = "not_found"
            THEN base @@ [raised |-> TRUE, kind |-> "not_found", files |-> fs]
        ELSE IF ran = "nonzero"
            THEN base @@ [raised |-> TRUE, kind |-> "nonzero", files |-> fs]
        ELSE IF <<language, PDF>> \in produced
            THEN base @@ [raised |-> FALSE, kind |-> "ok", files |-> produced]
        ELSE base @@ [raised |-> TRUE, kind |-> "nofile", files |-> produced]

\* what translate_pptx does as its caller sees it: it raises, or it returns 0
\* without saving (input missing, load failed, save failed), or it saves and
\* returns its count
WalkerOutcomes(input_exists) ==
    IF ~input_exists THEN {[kind |-> "input_missing", count |-> 0]}
    ELSE {[kind |-> "raised", count |-> 0],
          [kind |-> "load_failed", count |-> 0],
          [kind |-> "save_failed", count |-> 0]}
         \cup {[kind |-> "saved", count |-> c] : c \in WalkerCounts}

\* a list of entries in place of the dict: a repeated key is appended again
dict_set_appends(d, language, value) == Append(d, [language |-> language] @@ value)

\* translations[language] = ...: a dict keeps a key's first position
dict_set(d, language, value) ==
    IF \E i \in DOMAIN d : d[i].language = language
    THEN [i \in DOMAIN d |-> IF d[i].language = language
                             THEN [language |-> language] @@ value ELSE d[i]]
    ELSE Append(d, [language |-> language] @@ value)

language_error(language) == [names |-> language, kind |-> "language"]
pdf_error(language) == [names |-> language, kind |-> "pdf"]
zip_error == [names |-> <<>>, kind |-> "zip"]

(***************************************************************************)
(* app.translate, up to its call of translate_pptx_multi (lines 39-117).   *)
(***************************************************************************)
bad_request == [status |-> 400, artifact |-> <<"none">>, warnings |-> <<>>]

\* request.form.getlist('target_langs'), else [request.form.get('target_lang')]
form_target_langs(form) ==
    IF form.target_langs # <<>> THEN form.target_langs
    ELSE IF form.target_lang # NoFallback /\ form.target_lang # <<>>
         THEN <<form.target_lang>> ELSE <<>>

translate_receive ==
    /\ pc = "h_start"
    /\ LET target_langs == strip_languages(form_target_langs(request))
           formats == handler_formats(request.formats)
           rejected ==
               \/ ~request.upload.present
               \/ request.upload.empty
               \/ ~allowed_file(request.upload)
               \/ target_langs = <<>>
               \/ formats.invalid
       IN  IF rejected
           THEN /\ response' = bad_request
                /\ pc' = "h_done"
                /\ UNCHANGED <<args, input_saved>>
           ELSE /\ input_saved' = TRUE
                /\ args' = [target_langs |-> normalized_langs_of(target_langs),
                            formats |-> formats.value,
                            zip_output |-> TRUE]
                /\ pc' = "m_start"
                /\ UNCHANGED response
    /\ UNCHANGED <<request, languages, normalized_formats, idx, translations,
                   errors, zip_path, raised, libreoffice_checked,
                   libreoffice_available, root_exists, dirs, files, archive,
                   walker_calls, convert_calls, raised_at, returned_at,
                   pdf_failed_at, saved_at, step_convert, adapter, fit, walker,
                   probe, server>>

(***************************************************************************)
(* translate_pptx_multi, lines 391-410: validation, then the output root.  *)
(***************************************************************************)
\* _ensure_output_root moved ahead of the validation
multi_validate_root_first(input_exists, call, checked, available, resolved) ==
    LET langs == strip_languages(call.target_langs)
        formats == _normalize_formats(call.formats)
        wants_pdf == ~formats.raised /\ InSeq(PDF, formats.value)
        ensured == IF wants_pdf
                   THEN _ensure_libreoffice_available(checked, available, resolved)
                   ELSE [checked |-> checked, available |-> available,
                         raised |-> FALSE, looked_up |-> FALSE]
        globals == [checked |-> ensured.checked, available |-> ensured.available]
        unchanged == [checked |-> checked, available |-> available]
        rejected(exception) == [raised |-> exception, languages |-> <<>>,
                                formats |-> <<>>, root |-> TRUE]
    IN  IF ~input_exists THEN unchanged @@ rejected("FileNotFoundError")
        ELSE IF langs = <<>> THEN unchanged @@ rejected("ValueError")
        ELSE IF formats.raised THEN unchanged @@ rejected("ValueError")
        ELSE IF ensured.raised THEN globals @@ rejected("FileNotFoundError")
        ELSE globals @@ [raised |-> "none", languages |-> langs,
                         formats |-> formats.value, root |-> TRUE]

\* lines 391-408 in the code's order; root: _ensure_output_root has run
multi_validate(input_exists, call, checked, available, resolved) ==
    LET langs == strip_languages(call.target_langs)
        formats == _normalize_formats(call.formats)
        wants_pdf == ~formats.raised /\ InSeq(PDF, formats.value)
        ensured == IF wants_pdf
                   THEN _ensure_libreoffice_available(checked, available, resolved)
                   ELSE [checked |-> checked, available |-> available,
                         raised |-> FALSE, looked_up |-> FALSE]
        globals == [checked |-> ensured.checked, available |-> ensured.available]
        unchanged == [checked |-> checked, available |-> available]
        rejected(exception) == [raised |-> exception, languages |-> <<>>,
                                formats |-> <<>>, root |-> FALSE]
    IN  IF ~input_exists THEN unchanged @@ rejected("FileNotFoundError")
        ELSE IF langs = <<>> THEN unchanged @@ rejected("ValueError")
        ELSE IF formats.raised THEN unchanged @@ rejected("ValueError")
        ELSE IF ensured.raised THEN globals @@ rejected("FileNotFoundError")
        ELSE globals @@ [raised |-> "none", languages |-> langs,
                         formats |-> formats.value, root |-> TRUE]

translate_pptx_multi_begin ==
    /\ pc = "m_start"
    /\ \E resolved \in BOOLEAN :
         LET v == multi_validate(input_saved, args, libreoffice_checked,
                                 libreoffice_available, resolved)
         IN  /\ libreoffice_checked' = v.checked
             /\ libreoffice_available' = v.available
             /\ raised' = v.raised
             /\ root_exists' = (root_exists \/ v.root)
             /\ IF v.raised # "none"
                THEN /\ pc' = "m_raised"
                     /\ UNCHANGED <<languages, normalized_formats, idx>>
                ELSE /\ pc' = "m_loop"
                     /\ languages' = v.languages
                     /\ normalized_formats' = v.formats
                     /\ idx' = 1
    /\ UNCHANGED <<request, args, translations, errors, zip_path, response,
                   input_saved, dirs, files, archive, walker_calls, convert_calls,
                   raised_at, returned_at, pdf_failed_at, saved_at, step_convert,
                   adapter, fit, walker,
                   probe, server>>

(***************************************************************************)
(* translate_pptx_multi, lines 415-443: one iteration of the language      *)
(* loop.  walked: what translate_pptx does; resolved, proc: what the       *)
(* converter's look-up and runs do.  lang_dir.mkdir is taken to succeed.   *)
(***************************************************************************)
\* the conversion's exception caught by the outer handler (lines 441-443)
\* instead of its own (lines 435-436)
language_body_pdf_failure_escapes(language, fs, formats, checked, available, walked, resolved, proc) ==
    LET pptx_path == <<language, PPTX>>
        saved == IF walked.kind = "saved" THEN fs \cup {pptx_path} ELSE fs
        outputs0 == IF InSeq(PPTX, formats)
                    THEN <<[format |-> PPTX, path |-> pptx_path]>> ELSE <<>>
        converts == InSeq(PDF, formats) /\ pptx_path \in saved
        converted == _libreoffice_convert(language, saved, checked, available, resolved, proc)
        outputs == IF converts /\ ~converted.raised
                   THEN Append(outputs0, [format |-> PDF, path |-> <<language, PDF>>])
                   ELSE outputs0
        same == [checked |-> checked, available |-> available]
    IN  IF walked.kind = "raised"
            THEN same @@ [raised |-> TRUE, walker |-> walked.kind,
                          convert |-> "not_called", files |-> fs, entry |-> <<>>]
        ELSE IF ~converts
            THEN same @@ [raised |-> FALSE, walker |-> walked.kind,
                          convert |-> "not_called", files |-> saved,
                          entry |-> <<[count |-> walked.count, outputs |-> outputs]>>]
        ELSE [checked |-> converted.checked, available |-> converted.available,
              raised |-> converted.raised, walker |-> walked.kind,
              convert |-> converted.kind, files |-> converted.files,
              entry |-> IF converted.raised THEN <<>>
                        ELSE <<[count |-> walked.count, outputs |-> outputs]>>]

language_body(language, fs, formats, checked, available, walked, resolved, proc) ==
    LET pptx_path == <<language, PPTX>>
        saved == IF walked.kind = "saved" THEN fs \cup {pptx_path} ELSE fs
        outputs0 == IF InSeq(PPTX, formats)
                    THEN <<[format |-> PPTX, path |-> pptx_path]>> ELSE <<>>
        converts == InSeq(PDF, formats) /\ pptx_path \in saved
        converted == _libreoffice_convert(language, saved, checked, available, resolved, proc)
        outputs == IF converts /\ ~converted.raised
                   THEN Append(outputs0, [format |-> PDF, path |-> <<language, PDF>>])
                   ELSE outputs0
        same == [checked |-> checked, available |-> available]
    IN  IF walked.kind = "raised"
            THEN same @@ [raised |-> TRUE, walker |-> walked.kind,
                          convert |-> "not_called", files |-> fs, entry |-> <<>>]
        ELSE IF ~converts
            THEN same @@ [raised |-> FALSE, walker |-> walked.kind,
                          convert |-> "not_called", files |-> saved,
                          entry |-> <<[count |-> walked.count, outputs |-> outputs]>>]
        ELSE [checked |-> converted.checked, available |-> converted.available,
              raised |-> FALSE, walker |-> walked.kind,
              convert |-> converted.kind, files |-> converted.files,
              entry |-> <<[count |-> walked.count, outputs |-> outputs]>>]

\* the converter is run only when pdf is requested and the pptx file exists
\* (line 429); shutil.which is consulted only while nothing is cached
proc_choices(language, fs, formats, walked) ==
    IF InSeq(PDF, formats) /\ (walked.kind = "saved" \/ <<language, PPTX>> \in fs)
    THEN {p \in [DOMAIN LIBREOFFICE_FILTERS -> ProcOutcomes] :
            \A i \in DOMAIN p : (i > 1 /\ p[i - 1] # "nonzero") => p[i] = "nonzero"}
    ELSE {[i \in DOMAIN LIBREOFFICE_FILTERS |-> "nonzero"]}

which_choices(checked) == IF checked THEN {TRUE} ELSE BOOLEAN

translate_pptx_multi_language ==
    /\ pc = "m_loop"
    /\ idx <= Len(languages)
    /\ \E walked \in WalkerOutcomes(input_saved),
          resolved \in which_choices(libreoffice_checked) :
         \E proc \in proc_choices(languages[idx], files, normalized_formats, walked) :
           LET language == languages[idx]
               b == language_body(language, files, normalized_formats,
                                  libreoffice_checked, libreoffice_available,
                                  walked, resolved, proc)
               pdf_raised == b.convert \notin {"not_called", "ok"}
           IN  /\ libreoffice_checked' = b.checked
               /\ libreoffice_available' = b.available
               /\ dirs' = dirs \cup {language}
               /\ files' = b.files
               /\ translations' = IF b.raised THEN translations
                                  ELSE dict_set(translations, language, b.entry[1])
               /\ errors' = IF b.raised THEN Append(errors, language_error(language))
                            ELSE IF pdf_raised THEN Append(errors, pdf_error(language))
                            ELSE errors
               /\ walker_calls' = Append(walker_calls, language)
               /\ convert_calls' = IF b.convert = "not_called" THEN convert_calls
                                   ELSE Append(convert_calls, language)
               /\ raised_at' = IF b.raised THEN raised_at \cup {idx} ELSE raised_at
               /\ returned_at' = IF b.raised THEN returned_at ELSE returned_at \cup {idx}
               /\ pdf_failed_at' = IF pdf_raised THEN pdf_failed_at \cup {idx}
                                   ELSE pdf_failed_at
               /\ saved_at' = IF b.walker = "saved" THEN saved_at \cup {idx} ELSE saved_at
               /\ step_convert' = b.convert
    /\ idx' = idx + 1
    /\ UNCHANGED <<pc, request, args, languages, normalized_formats, zip_path,
                   raised, response, input_saved, root_exists, archive,
                   adapter, fit, walker,
                   probe, server>>

(***************************************************************************)
(* translate_pptx_multi, lines 445-461: the archive and the summary.       *)
(* _bundle_outputs_to_zip writes every file under the output root         *)
(* (rglob, is_file), each under its path relative to the root; when it     *)
(* raises, a partial archive it may leave behind is not modelled.          *)
(***************************************************************************)
\* rglob without the is_file test: directories become entries too
bundle_with_directories(ds, fs) == fs \cup {<<d, <<"/">>>> : d \in ds}

_bundle_outputs_to_zip(ds, fs) == fs

translate_pptx_multi_finish ==
    /\ pc = "m_loop"
    /\ idx > Len(languages)
    /\ IF args.zip_output /\ translations # <<>>
       THEN \E bundled \in BOOLEAN :
              IF bundled
              THEN /\ archive' = _bundle_outputs_to_zip(dirs, files)
                   /\ zip_path' = TRUE
                   /\ UNCHANGED errors
              ELSE /\ errors' = Append(errors, zip_error)
                   /\ UNCHANGED <<archive, zip_path>>
       ELSE UNCHANGED <<archive, zip_path, errors>>
    /\ pc' = "m_done"
    /\ step_convert' = "not_called"
    /\ UNCHANGED <<request, args, languages, normalized_formats, idx,
                   translations, raised, response, libreoffice_checked,
                   libreoffice_available, input_saved, root_exists, dirs, files,
                   walker_calls, convert_calls, raised_at, returned_at,
                   pdf_failed_at, saved_at, adapter, fit, walker,
                   probe, server>>

(***************************************************************************)
(* app.translate, lines 119-188: the answer.                               *)
(***************************************************************************)
\* every path of every translation's outputs, in the dicts' order (lines 131-133)
RECURSIVE output_paths(_)
output_paths(d) ==
    IF d = <<>> THEN <<>>
    ELSE [i \in DOMAIN Head(d).outputs |-> Head(d).outputs[i].path] \o output_paths(Tail(d))

\* lines 131-140: the first recorded path that exists
RECURSIVE first_existing(_, _)
first_existing(paths, fs) ==
    IF paths = <<>> THEN <<"none">>
    ELSE IF Head(paths) \in fs THEN Head(paths)
    ELSE first_existing(Tail(paths), fs)

\* lines 119-143: the file to send, or <<"none">> where the code raises RuntimeError
download_path(summary_translations, summary_zip_path, zip_on_disk, fs) ==
    IF summary_translations = <<>> THEN <<"none">>
    ELSE IF summary_zip_path /\ zip_on_disk # NoArchive THEN <<"zip">>
    ELSE first_existing(output_paths(summary_translations), fs)

translate_respond ==
    /\ pc \in {"m_done", "m_raised"}
    /\ LET download == IF pc = "m_raised" THEN <<"none">>
                       ELSE download_path(translations, zip_path, archive, files)
       IN  IF download # <<"none">>
           THEN /\ response' = [status |-> 200, artifact |-> download, warnings |-> errors]
                /\ UNCHANGED <<input_saved, root_exists, dirs, files>>
           ELSE /\ response' = [status |-> IF raised = "ValueError" THEN 400 ELSE 500,
                                artifact |-> <<"none">>, warnings |-> <<>>]
                /\ input_saved' = FALSE
                /\ root_exists' = FALSE
                /\ dirs' = {}
                /\ files' = {}
    /\ pc' = "h_done"
    /\ UNCHANGED <<request, args, languages, normalized_formats, idx,
                   translations, errors, zip_path, raised, libreoffice_checked,
                   libreoffice_available, archive, walker_calls, convert_calls,
                   raised_at, returned_at, pdf_failed_at, saved_at, step_convert,
                   adapter, fit, walker,
                   probe, server>>

(***************************************************************************)
(* Specifications.  Spec: translate_pptx_multi called directly, in a fresh *)
(* process.  SpecHandler: one /translate request through app.translate.    *)
(***************************************************************************)
Idle == [pc |-> "idle"]
NoArgs == [target_langs |-> <<>>, formats |-> <<>>, zip_output |-> FALSE]
NoRequest == [upload |-> NoUpload, target_langs |-> <<>>, target_lang |-> NoFallback,
              formats |-> <<>>]

HandlerRequests ==
    { [upload |-> u, target_langs |-> l, target_lang |-> t, formats |-> f] :
        u \in Uploads, l \in SeqsUpTo(FormLangs, MaxLangs),
        t \in {NoFallback, FR, <<" ">>}, f \in FormFormats }

DirectCalls ==
    { [target_langs |-> l, formats |-> f, zip_output |-> z] :
        l \in SeqsUpTo(RawLangs, MaxLangs), f \in FormatInputs, z \in BOOLEAN }

InitMulti ==
    /\ libreoffice_checked = FALSE
    /\ libreoffice_available = FALSE
    /\ languages = <<>>
    /\ normalized_formats = <<>>
    /\ idx = 0
    /\ translations = <<>>
    /\ errors = <<>>
    /\ zip_path = FALSE
    /\ raised = "none"
    /\ response = NoResponse
    /\ root_exists = FALSE
    /\ dirs = {}
    /\ files = {}
    /\ archive = NoArchive
    /\ walker_calls = <<>>
    /\ convert_calls = <<>>
    /\ raised_at = {}
    /\ returned_at = {}
    /\ pdf_failed_at = {}
    /\ saved_at = {}
    /\ step_convert = "not_called"

InitRun ==
    /\ InitMulti
    /\ probe = Idle
    /\ server = Idle
    /\ adapter = Idle
    /\ fit = Idle
    /\ walker = Idle

Init ==
    /\ request = NoRequest
    /\ args \in DirectCalls
    /\ input_saved \in BOOLEAN
    /\ pc = "m_start"
    /\ InitRun

Next ==
    \/ translate_pptx_multi_begin
    \/ translate_pptx_multi_language
    \/ translate_pptx_multi_finish

Spec == Init /\ [][Next]_vars

InitHandler ==
    /\ request \in {r \in HandlerRequests :
                      r.target_langs # <<>> => r.target_lang = NoFallback}
    /\ args = NoArgs
    /\ input_saved = FALSE
    /\ pc = "h_start"
    /\ InitRun

NextHandler ==
    \/ translate_receive
    \/ translate_pptx_multi_begin
    \/ translate_pptx_multi_language
    \/ translate_pptx_multi_finish
    \/ translate_respond

SpecHandler == InitHandler /\ [][NextHandler]_vars

(***************************************************************************)
(* The translation adapter (lines 104-180).  reply is what the provider    *)
(* does when it is called: it answers with a text, it answers with an      *)
(* empty result (google, line 127), or the call raises.                    *)
(***************************************************************************)
Glyphs == {" ", "i", "W"}
Texts == SeqsUpTo(Glyphs, MaxTextLen)

GOOGLE == <<"g", "o", "o", "g", "l", "e">>
DEEPL == <<"d", "e", "e", "p", "l">>
OPENAI == <<"o", "p", "e", "n", "a", "i">>
Services == {GOOGLE, DEEPL, <<"D", "e", "e", "p", "L">>, OPENAI, <<"b", "i", "n", "g">>}

\* api_key: None or "" (both falsy), or a key
NoKey == <<>>
ApiKeys == {NoKey, <<"k">>}

Replies == {[kind |-> "error", text |-> <<>>], [kind |-> "empty", text |-> <<>>],
            [kind |-> "text", text |-> <<"W", "i">>],
            [kind |-> "text", text |-> <<" ", "W", "W", "W", " ">>]}

not_called(text) == [text |-> text, called |-> "none", translated |-> FALSE]

translate_with_google(text, reply) ==
    IF Strip(text) = <<>> THEN not_called(text)
    ELSE IF reply.kind = "text"
         THEN [text |-> reply.text, called |-> "google", translated |-> TRUE]
         ELSE [text |-> text, called |-> "google", translated |-> FALSE]

\* DeepL called whatever the key
translate_with_deepl_ignores_key(text, api_key, reply) ==
    IF Strip(text) = <<>> THEN not_called(text)
    ELSE IF reply.kind = "text"
         THEN [text |-> reply.text, called |-> "deepl", translated |-> TRUE]
         ELSE [text |-> text, called |-> "deepl", translated |-> FALSE]

\* result['translations'][0]['text']: an empty result raises, caught at line 147
translate_with_deepl(text, api_key, reply) ==
    IF Strip(text) = <<>> \/ api_key = NoKey THEN not_called(text)
    ELSE IF reply.kind = "text"
         THEN [text |-> reply.text, called |-> "deepl", translated |-> TRUE]
         ELSE [text |-> text, called |-> "deepl", translated |-> FALSE]

\* response.choices[0].message.content.strip()
translate_with_openai(text, api_key, reply) ==
    IF Strip(text) = <<>> \/ api_key = NoKey THEN not_called(text)
    ELSE IF reply.kind = "text"
         THEN [text |-> Strip(reply.text), called |-> "openai", translated |-> TRUE]
         ELSE [text |-> text, called |-> "openai", translated |-> FALSE]

translate_text(text, service, api_key, reply) ==
    IF Lower(service) = DEEPL THEN translate_with_deepl(text, api_key, reply)
    ELSE IF Lower(service) = OPENAI THEN translate_with_openai(text, api_key, reply)
    ELSE translate_with_google(text, reply)

call_translate_text ==
    /\ adapter.pc = "call"
    /\ \E reply \in Replies :
         LET r == translate_text(adapter.text, adapter.service, adapter.api_key, reply)
         IN  adapter' = [adapter EXCEPT !.pc = "returned", !.result = r.text,
                                        !.called = r.called]
    /\ UNCHANGED <<pc, request, args, languages, normalized_formats, idx, translations,
                   errors, zip_path, raised, response, libreoffice_checked,
                   libreoffice_available, input_saved, root_exists, dirs, files,
                   archive, walker_calls, convert_calls, raised_at, returned_at,
                   pdf_failed_at, saved_at, step_convert, fit, walker,
                   probe, server>>

InitOff ==
    /\ pc = "off"
    /\ request = NoRequest
    /\ args = NoArgs
    /\ input_saved = FALSE

InitText ==
    /\ adapter \in [pc : {"call"}, text : Texts, service : Services, api_key : ApiKeys,
                    result : {<<>>}, called : {"none"}]
    /\ fit = Idle
    /\ walker = Idle
    /\ InitOff
    /\ InitMulti
    /\ probe = Idle
    /\ server = Idle

NextText == call_translate_text

SpecText == InitText /\ [][NextText]_vars

(***************************************************************************)
(* The font-fit estimator (lines 55-102).  Sizes are in tenths of a point, *)
(* max_width in points (the walker passes shape width - 20, which may be   *)
(* negative); a returned size is the fraction num/den of tenths of a       *)
(* point.  The arithmetic is exact where the code's is floating point.     *)
(***************************************************************************)
\* reportlab's Helvetica widths, in thousandths of the font size
GlyphWidth(c) == CASE c = " " -> 278 [] c = "i" -> 222 [] c = "W" -> 944 [] OTHER -> 556

RECURSIVE TextEm(_)
TextEm(text) == IF text = <<>> THEN 0 ELSE GlyphWidth(Head(text)) + TextEm(Tail(text))

\* get_text_width, in tenths of a point, times 1000
get_text_width(text, font_size) == TextEm(text) * font_size

Max(a, b) == IF a >= b THEN a ELSE b

\* lines 76-84
conservative_min(current_size) ==
    IF current_size >= 200 THEN current_size - 20
    ELSE IF current_size >= 140 THEN current_size - 15
    ELSE current_size - 10

\* the floor of the lowest band without max(min_size, 10.0)
absolute_min_ignores_min_size(current_size, min_size) ==
    IF current_size >= 240 THEN 200
    ELSE IF current_size >= 160 THEN 130
    ELSE 100

\* lines 87-92
absolute_min(current_size, min_size) ==
    IF current_size >= 240 THEN 200
    ELSE IF current_size >= 160 THEN 130
    ELSE Max(min_size, 100)

\* current_width <= max_width * 1.1
fits(text, max_width, current_size) ==
    get_text_width(text, current_size) <= 11000 * max_width

calculate_font_size(text, max_width, current_size, min_size) ==
    IF Strip(text) = <<>> THEN [num |-> current_size, den |-> 1]
    ELSE IF fits(text, max_width, current_size) THEN [num |-> current_size, den |-> 1]
    ELSE LET final_min == Max(conservative_min(current_size),
                              absolute_min(current_size, min_size))
             \* new_size = current_size * (max_width / current_width)
             new_num == current_size * (10000 * max_width)
             new_den == get_text_width(text, current_size)
         IN  IF new_num >= final_min * new_den
             THEN [num |-> new_num, den |-> new_den]
             ELSE [num |-> final_min, den |-> 1]

call_calculate_font_size ==
    /\ fit.pc = "call"
    /\ fit' = [fit EXCEPT !.pc = "returned",
                          !.result = calculate_font_size(fit.text, fit.max_width,
                                                         fit.current_size, fit.min_size)]
    /\ UNCHANGED <<pc, request, args, languages, normalized_formats, idx, translations,
                   errors, zip_path, raised, response, libreoffice_checked,
                   libreoffice_available, input_saved, root_exists, dirs, files,
                   archive, walker_calls, convert_calls, raised_at, returned_at,
                   pdf_failed_at, saved_at, step_convert, adapter, walker,
                   probe, server>>

\* 6.0pt to 32.0pt by halves of a point
CurrentSizes == {5 * k : k \in 12..64}
\* the default 9.0, the walker's 10.0 and 11.0, and one above the lowest band's 10.0
MinSizes == {90, 100, 110, 140}
MaxWidths == {0 - 5, 0, 3, 10, 30, 100}

InitFont ==
    /\ fit \in [pc : {"call"}, text : Texts, max_width : MaxWidths,
                current_size : CurrentSizes, min_size : MinSizes,
                result : {[num |-> 0, den |-> 1]}]
    /\ adapter = Idle
    /\ walker = Idle
    /\ InitOff
    /\ InitMulti
    /\ probe = Idle
    /\ server = Idle

NextFont == call_calculate_font_size

SpecFont == InitFont /\ [][NextFont]_vars

(***************************************************************************)
(* The walker translate_pptx (lines 182-311).  The document is drawn as it *)
(* is walked: one text container (a shape's text frame, or a table cell)   *)
(* at a time, one run at a time.  Sizes are in tenths of a point, 0 for a  *)
(* run without an explicit size; widths are in points, 0 for none.         *)
(* succeeded and first_sized record history: the runs the provider         *)
(* translated, and the size of the container's first non-blank sized run.  *)
(***************************************************************************)
TEXT_FRAME == "text_frame"
TABLE_CELL == "table_cell"

RunTexts == {<<" ">>, <<"W", "W">>}
RunSizes == {0, 80, 100, 120, 180}
FrameWidths == {0, 30, 120}
WalkerReplies == {[kind |-> "error", text |-> <<>>], [kind |-> "text", text |-> <<"W", "i">>]}

\* service, api_key as passed, and the key of the environment (lines 19-20)
WalkerCalls ==
    {[service |-> GOOGLE, api_key |-> NoKey, env_key |-> NoKey],
     [service |-> <<"D", "e", "e", "p", "L">>, api_key |-> NoKey, env_key |-> NoKey],
     [service |-> <<"D", "e", "e", "p", "L">>, api_key |-> NoKey, env_key |-> <<"k">>],
     [service |-> DEEPL, api_key |-> <<"k">>, env_key |-> NoKey]}

NoRun == [before |-> <<>>, after |-> <<>>, outcome |-> "none"]
NoSize == [num |-> 0, den |-> 1]

\* lines 212 and 266
default_size(kind) == IF kind = TEXT_FRAME THEN 120 ELSE 100

\* lines 242 and 293
container_min_size(kind) == IF kind = TEXT_FRAME THEN 110 ELSE 100

\* lines 198-201
autoload_api_key(service, api_key, env_key) ==
    IF Lower(service) \in {DEEPL, OPENAI} /\ api_key = NoKey THEN env_key ELSE api_key

\* lines 184-201
translate_pptx_load ==
    /\ walker.pc = "load"
    /\ \E exists \in BOOLEAN, loads \in BOOLEAN :
         walker' = IF exists /\ loads
                   THEN [walker EXCEPT !.pc = "shape",
                                       !.api_key = autoload_api_key(walker.service,
                                                                    walker.api_key,
                                                                    walker.env_key)]
                   ELSE [walker EXCEPT !.pc = "returned", !.result = 0]
    /\ UNCHANGED <<pc, request, args, languages, normalized_formats, idx, translations,
                   errors, zip_path, raised, response, libreoffice_checked,
                   libreoffice_available, input_saved, root_exists, dirs, files,
                   archive, walker_calls, convert_calls, raised_at, returned_at,
                   pdf_failed_at, saved_at, step_convert, adapter, fit,
                   probe, server>>

\* lines 210-213 and 264-267
translate_pptx_container ==
    /\ walker.pc = "shape"
    /\ walker.shapes < MaxShapes
    /\ \E kind \in {TEXT_FRAME, TABLE_CELL}, width \in FrameWidths :
         /\ kind = TABLE_CELL => width = 0
         /\ walker' = [walker EXCEPT !.pc = "runs", !.shapes = @ + 1, !.kind = kind,
                                     !.width = width, !.nruns = 0,
                                     !.original_size = default_size(kind),
                                     !.first_sized = 0, !.all_text = <<>>,
                                     !.last = NoRun, !.sized = FALSE,
                                     !.optimal_size = NoSize, !.applied = FALSE]
    /\ UNCHANGED <<pc, request, args, languages, normalized_formats, idx, translations,
                   errors, zip_path, raised, response, libreoffice_checked,
                   libreoffice_available, input_saved, root_exists, dirs, files,
                   archive, walker_calls, convert_calls, raised_at, returned_at,
                   pdf_failed_at, saved_at, step_convert, adapter, fit,
                   probe, server>>

\* lines 217-234 and 271-288: one run of the first pass; set_raises is the
\* library refusing the assignment run.text = translated_text
first_pass_run(w, text, size, reply, set_raises) ==
    IF Strip(text) = <<>>
    THEN [w EXCEPT !.nruns = @ + 1,
                   !.last = [before |-> text, after |-> text, outcome |-> "blank"]]
    ELSE LET captured == IF size # 0 /\ w.original_size = default_size(w.kind)
                         THEN size ELSE w.original_size
             first == IF size # 0 /\ w.first_sized = 0 THEN size ELSE w.first_sized
             r == translate_text(text, w.service, w.api_key, reply)
         IN  IF set_raises
             THEN [w EXCEPT !.nruns = @ + 1, !.original_size = captured,
                            !.first_sized = first,
                            !.last = [before |-> text, after |-> text,
                                      outcome |-> "raised"]]
             ELSE [w EXCEPT !.nruns = @ + 1, !.original_size = captured,
                            !.first_sized = first,
                            !.total_translated = @ + 1,
                            !.succeeded = @ + (IF r.translated THEN 1 ELSE 0),
                            !.all_text = @ \o r.text \o <<" ">>,
                            !.last = [before |-> text, after |-> r.text,
                                      outcome |-> IF r.translated THEN "translated"
                                                  ELSE "failed"]]

translate_pptx_run ==
    /\ walker.pc = "runs"
    /\ walker.nruns < MaxRuns
    /\ \E text \in RunTexts, size \in RunSizes, reply \in WalkerReplies,
          set_raises \in BOOLEAN :
         walker' = first_pass_run(walker, text, size, reply, set_raises)
    /\ UNCHANGED <<pc, request, args, languages, normalized_formats, idx, translations,
                   errors, zip_path, raised, response, libreoffice_checked,
                   libreoffice_available, input_saved, root_exists, dirs, files,
                   archive, walker_calls, convert_calls, raised_at, returned_at,
                   pdf_failed_at, saved_at, step_convert, adapter, fit,
                   probe, server>>

\* abs(optimal_size - original_size) > 0.5
differs(optimal_size, original_size) ==
    LET d == optimal_size.num - original_size * optimal_size.den
    IN  (IF d >= 0 THEN d ELSE 0 - d) > 5 * optimal_size.den

\* lines 237-251 and 291-302: the second pass over the container
second_pass(w) ==
    LET text == Strip(w.all_text)
        sized == text # <<>> /\ (w.kind = TABLE_CELL \/ w.width # 0)
        max_width == IF w.kind = TEXT_FRAME THEN w.width - 20 ELSE 100
        optimal_size == calculate_font_size(text, max_width, w.original_size,
                                            container_min_size(w.kind))
    IN  IF sized
        THEN [w EXCEPT !.pc = "shape", !.sized = TRUE, !.optimal_size = optimal_size,
                       !.applied = differs(optimal_size, w.original_size)]
        ELSE [w EXCEPT !.pc = "shape"]

translate_pptx_resize ==
    /\ walker.pc = "runs"
    /\ walker' = second_pass(walker)
    /\ UNCHANGED <<pc, request, args, languages, normalized_formats, idx, translations,
                   errors, zip_path, raised, response, libreoffice_checked,
                   libreoffice_available, input_saved, root_exists, dirs, files,
                   archive, walker_calls, convert_calls, raised_at, returned_at,
                   pdf_failed_at, saved_at, step_convert, adapter, fit,
                   probe, server>>

\* lines 304-311
translate_pptx_save ==
    /\ walker.pc = "shape"
    /\ \E saves \in BOOLEAN :
         walker' = [walker EXCEPT !.pc = "returned", !.saved = saves,
                                  !.result = IF saves THEN walker.total_translated ELSE 0]
    /\ UNCHANGED <<pc, request, args, languages, normalized_formats, idx, translations,
                   errors, zip_path, raised, response, libreoffice_checked,
                   libreoffice_available, input_saved, root_exists, dirs, files,
                   archive, walker_calls, convert_calls, raised_at, returned_at,
                   pdf_failed_at, saved_at, step_convert, adapter, fit,
                   probe, server>>

InitWalker ==
    /\ \E call \in WalkerCalls :
         walker = [pc |-> "load", service |-> call.service, api_key |-> call.api_key,
                   env_key |-> call.env_key, shapes |-> 0, kind |-> TEXT_FRAME,
                   width |-> 0, nruns |-> 0, original_size |-> default_size(TEXT_FRAME),
                   first_sized |-> 0, all_text |-> <<>>, last |-> NoRun,
                   sized |-> FALSE, optimal_size |-> NoSize, applied |-> FALSE,
                   total_translated |-> 0, succeeded |-> 0, saved |-> FALSE,
                   result |-> 0]
    /\ adapter = Idle
    /\ fit = Idle
    /\ InitOff
    /\ InitMulti
    /\ probe = Idle
    /\ server = Idle

NextWalker ==
    \/ translate_pptx_load
    \/ translate_pptx_container
    \/ translate_pptx_run
    \/ translate_pptx_resize
    \/ translate_pptx_save

SpecWalker == InitWalker /\ [][NextWalker]_vars

(***************************************************************************)
(* One process over several calls of _ensure_libreoffice_available (lines  *)
(* 314-325): from translate_pptx_multi when pdf is requested (lines        *)
(* 400-401) and from _libreoffice_convert (line 356), one after another.   *)
(* resolved is what shutil.which would find at the time of the call.       *)
(* probe.log records each call: who made it, what the binary's             *)
(* availability was, whether the binary was looked up, whether the call    *)
(* raised FileNotFoundError.                                               *)
(***************************************************************************)
ensure_call(caller, resolved, ensured) ==
    [caller |-> caller, resolved |-> resolved, looked_up |-> ensured.looked_up,
     raised |-> ensured.raised]

\* lines 400-401
translate_pptx_multi_ensure ==
    /\ probe.pc = "running"
    /\ Len(probe.log) < MaxCalls
    /\ \E resolved \in BOOLEAN :
         LET ensured == _ensure_libreoffice_available(libreoffice_checked,
                                                      libreoffice_available, resolved)
         IN  /\ libreoffice_checked' = ensured.checked
             /\ libreoffice_available' = ensured.available
             /\ probe' = [probe EXCEPT
                            !.log = Append(@, ensure_call("translate_pptx_multi",
                                                          resolved, ensured))]
    /\ UNCHANGED <<pc, request, args, languages, normalized_formats, idx, translations,
                   errors, zip_path, raised, response, input_saved, root_exists, dirs,
                   files, archive, walker_calls, convert_calls, raised_at, returned_at,
                   pdf_failed_at, saved_at, step_convert, adapter, fit, walker, server>>

\* lines 351-378, for the saved pptx of one language
libreoffice_convert_ensure ==
    /\ probe.pc = "running"
    /\ Len(probe.log) < MaxCalls
    /\ \E resolved \in BOOLEAN :
         \E proc \in proc_choices(ES, files, <<PDF>>, [kind |-> "saved", count |-> 0]) :
           LET ensured == _ensure_libreoffice_available(libreoffice_checked,
                                                        libreoffice_available, resolved)
               converted == _libreoffice_convert(ES, files, libreoffice_checked,
                                                 libreoffice_available, resolved, proc)
           IN  /\ libreoffice_checked' = converted.checked
               /\ libreoffice_available' = converted.available
               /\ files' = converted.files
               /\ probe' = [probe EXCEPT
                              !.log = Append(@, ensure_call("_libreoffice_convert",
                                                            resolved, ensured))]
    /\ UNCHANGED <<pc, request, args, languages, normalized_formats, idx, translations,
                   errors, zip_path, raised, response, input_saved, root_exists, dirs,
                   archive, walker_calls, convert_calls, raised_at, returned_at,
                   pdf_failed_at, saved_at, step_convert, adapter, fit, walker, server>>

InitProcess ==
    /\ probe = [pc |-> "running", log |-> <<>>]
    /\ libreoffice_checked = FALSE
    /\ libreoffice_available = FALSE
    /\ files = {<<ES, PPTX>>}
    /\ languages = <<>>
    /\ normalized_formats = <<>>
    /\ idx = 0
    /\ translations = <<>>
    /\ errors = <<>>
    /\ zip_path = FALSE
    /\ raised = "none"
    /\ response = NoResponse
    /\ root_exists = TRUE
    /\ dirs = {ES}
    /\ archive = NoArchive
    /\ walker_calls = <<>>
    /\ convert_calls = <<>>
    /\ raised_at = {}
    /\ returned_at = {}
    /\ pdf_failed_at = {}
    /\ saved_at = {}
    /\ step_convert = "not_called"
    /\ adapter = Idle
    /\ fit = Idle
    /\ walker = Idle
    /\ server = Idle
    /\ InitOff

NextProcess ==
    \/ translate_pptx_multi_ensure
    \/ libreoffice_convert_ensure

SpecProcess == InitProcess /\ [][NextProcess]_vars

(***************************************************************************)
(* app.py serving two /translate requests on threads (lines 96-188).  The  *)
(* clock counts whole seconds, the resolution of the timestamp of line     *)
(* 101.  A request is in flight from the saving of its upload until its    *)
(* answer.  server.clobbered records that a file or directory an in-flight *)
(* request was using has been overwritten or deleted on behalf of another. *)
(***************************************************************************)
\* time.sleep(5) of the cleanup thread (app.py line 157)
CLEANUP_DELAY == 5

Requests == {1, 2}

\* uploaded file names, without their .pptx
UploadStems == {<<"a">>, <<"a", " ", "b">>, <<"a", "_", "b">>}

\* werkzeug's secure_filename: whitespace becomes an underscore
secure_filename(name) == [i \in DOMAIN name |-> IF name[i] = " " THEN "_" ELSE name[i]]

\* lines 101-103: both paths are built from the name and the second
input_path(q) == <<"temp", q.stamp, q.filename>>
output_root(q) == <<q.filename, q.stamp>>

in_flight(q) == q.pc \in {"saved", "translating"}

\* another in-flight request uses this input path / this output root
input_shared(r, path) ==
    \E o \in Requests \ {r} :
      in_flight(server.reqs[o]) /\ input_path(server.reqs[o]) = path
root_shared(r, root) ==
    \E o \in Requests \ {r} :
      server.reqs[o].pc = "translating" /\ output_root(server.reqs[o]) = root

server_tick ==
    /\ server.pc = "serving"
    /\ server.clock < MaxClock
    /\ server' = [server EXCEPT !.clock = @ + 1]
    /\ UNCHANGED <<pc, request, args, languages, normalized_formats, idx, translations,
                   errors, zip_path, raised, response, libreoffice_checked,
                   libreoffice_available, input_saved, root_exists, dirs, files,
                   archive, walker_calls, convert_calls, raised_at, returned_at,
                   pdf_failed_at, saved_at, step_convert, adapter, fit, walker, probe>>

\* lines 97-106: the paths are chosen and the upload is saved
translate_save_upload ==
    /\ server.pc = "serving"
    /\ \E r \in Requests :
         /\ server.reqs[r].pc = "new"
         /\ LET q == [server.reqs[r] EXCEPT !.pc = "saved",
                                            !.filename = secure_filename(@),
                                            !.stamp = server.clock]
            IN  server' = [server EXCEPT
                             !.reqs[r] = q,
                             !.inputs = @ \cup {input_path(q)},
                             !.clobbered = @ \/ input_shared(r, input_path(q))]
    /\ UNCHANGED <<pc, request, args, languages, normalized_formats, idx, translations,
                   errors, zip_path, raised, response, libreoffice_checked,
                   libreoffice_available, input_saved, root_exists, dirs, files,
                   archive, walker_calls, convert_calls, raised_at, returned_at,
                   pdf_failed_at, saved_at, step_convert, adapter, fit, walker, probe>>

\* lines 169-188: the except branches remove the input and the output root
remove_on_error(r, q) ==
    [server EXCEPT !.reqs[r] = [q EXCEPT !.pc = "failed"],
                   !.inputs = @ \ {input_path(q)},
                   !.roots = @ \ {output_root(q)},
                   !.clobbered = @ \/ (input_path(q) \in server.inputs
                                         /\ input_shared(r, input_path(q)))
                                   \/ (output_root(q) \in server.roots
                                         /\ root_shared(r, output_root(q)))]

\* lines 109-117 with multi_improved.py lines 391-408: translate_pptx_multi
\* raises when the input is gone, else makes the output root
translate_call_multi ==
    /\ server.pc = "serving"
    /\ \E r \in Requests :
         LET q == server.reqs[r]
         IN  /\ q.pc = "saved"
             /\ server' = IF input_path(q) \notin server.inputs
                          THEN remove_on_error(r, q)
                          ELSE [server EXCEPT
                                  !.reqs[r] = [q EXCEPT !.pc = "translating"],
                                  !.roots = @ \cup {output_root(q)}]
    /\ UNCHANGED <<pc, request, args, languages, normalized_formats, idx, translations,
                   errors, zip_path, raised, response, libreoffice_checked,
                   libreoffice_available, input_saved, root_exists, dirs, files,
                   archive, walker_calls, convert_calls, raised_at, returned_at,
                   pdf_failed_at, saved_at, step_convert, adapter, fit, walker, probe>>

\* lines 119-188: the file is sent and the cleanup thread started, or an
\* except branch cleans up
translate_answer ==
    /\ server.pc = "serving"
    /\ \E r \in Requests, answered \in BOOLEAN :
         LET q == server.reqs[r]
         IN  /\ q.pc = "translating"
             /\ server' = IF answered
                          THEN [server EXCEPT
                                  !.reqs[r] = [q EXCEPT !.pc = "sent",
                                                        !.sent_at = server.clock]]
                          ELSE remove_on_error(r, q)
    /\ UNCHANGED <<pc, request, args, languages, normalized_formats, idx, translations,
                   errors, zip_path, raised, response, libreoffice_checked,
                   libreoffice_available, input_saved, root_exists, dirs, files,
                   archive, walker_calls, convert_calls, raised_at, returned_at,
                   pdf_failed_at, saved_at, step_convert, adapter, fit, walker, probe>>

\* lines 156-166: the cleanup thread removes the input five seconds later
cleanup ==
    /\ server.pc = "serving"
    /\ \E r \in Requests :
         LET q == server.reqs[r]
         IN  /\ q.pc = "sent"
             /\ server.clock >= q.sent_at + CLEANUP_DELAY
             /\ server' = [server EXCEPT
                             !.reqs[r] = [q EXCEPT !.pc = "done"],
                             !.inputs = @ \ {input_path(q)},
                             !.clobbered = @ \/ (input_path(q) \in server.inputs
                                                   /\ input_shared(r, input_path(q)))]
    /\ UNCHANGED <<pc, request, args, languages, normalized_formats, idx, translations,
                   errors, zip_path, raised, response, libreoffice_checked,
                   libreoffice_available, input_saved, root_exists, dirs, files,
                   archive, walker_calls, convert_calls, raised_at, returned_at,
                   pdf_failed_at, saved_at, step_convert, adapter, fit, walker, probe>>

InitServer ==
    /\ \E names \in [Requests -> UploadStems] :
         server = [pc |-> "serving", clock |-> 0,
                   reqs |-> [r \in Requests |->
                               [pc |-> "new", filename |-> names[r], stamp |-> 0,
                                sent_at |-> 0]],
                   inputs |-> {}, roots |-> {}, clobbered |-> FALSE]
    /\ adapter = Idle
    /\ fit = Idle
    /\ walker = Idle
    /\ probe = Idle
    /\ InitOff
    /\ InitMulti

NextServer ==
    \/ server_tick
    \/ translate_save_upload
    \/ translate_call_multi
    \/ translate_answer
    \/ cleanup

SpecServer == InitServer /\ [][NextServer]_vars

(***************************************************************************)
(* Properties.                                                             *)
(***************************************************************************)
Range(f) == {f[i] : i \in DOMAIN f}

\* the languages of a set of loop positions
LanguagesAt(positions) == {languages[i] : i \in positions}

\* how many strings of errors name language with this kind
ErrorCount(language, kind) ==
    Cardinality({i \in DOMAIN errors : errors[i] = [names |-> language, kind |-> kind]})

HasEntry(language) == \E i \in DOMAIN translations : translations[i].language = language

TranslationKeys == [i \in DOMAIN translations |-> translations[i].language]

\* the distinct elements of a sequence, in order of first occurrence
RECURSIVE FirstOccurrences(_)
FirstOccurrences(s) ==
    IF s = <<>> THEN <<>>
    ELSE LET front == FirstOccurrences(SubSeq(s, 1, Len(s) - 1))
         IN  IF s[Len(s)] \in Range(front) THEN front ELSE Append(front, s[Len(s)])

\* C1: when translate_pptx_multi returns (the output root was empty at the
\* start), every language of the list has been processed, in order; errors
\* holds one string naming the language for each iteration that raised;
\* translations has an entry for exactly the languages with an iteration that
\* did not raise (so none for a language whose iterations all raised); and the
\* archive, when there is one, holds entries only under the directories of
\* languages with an iteration that did not raise.
C1_FailureIsolated ==
    pc = "m_done" =>
        /\ raised_at \cup returned_at = DOMAIN languages
        /\ walker_calls = languages
        /\ \A l \in Range(languages) :
             /\ ErrorCount(l, "language") = Cardinality({i \in raised_at : languages[i] = l})
             /\ HasEntry(l) <=> l \in LanguagesAt(returned_at)
        /\ Range(TranslationKeys) \subseteq Range(languages)
        /\ archive # NoArchive => \A e \in archive : e[1] \in LanguagesAt(returned_at)

\* a language raised, a later one succeeded and saved, and the archive was made
C1_Witness ==
    /\ pc = "m_done"
    /\ archive # NoArchive
    /\ archive # {}
    /\ \E i \in raised_at, j \in returned_at :
         /\ i < j
         /\ languages[i] \notin LanguagesAt(returned_at)
         /\ languages[i] \in dirs

\* C2: whenever translate_pptx_multi rejects a request (it raises, for a
\* missing input, no non-blank language, a format outside {pptx, pdf}, or pdf
\* without the converter), the output root has not been created, no
\* per-language directory exists, and translate_pptx has not been invoked.
C2_RejectsBeforeAnyWork ==
    raised # "none" =>
        /\ pc = "m_raised"
        /\ ~root_exists
        /\ dirs = {}
        /\ files = {}
        /\ walker_calls = <<>>
        /\ convert_calls = <<>>

\* pdf was requested, the input and the languages were fine, the converter was not found
C2_Witness ==
    /\ pc = "m_raised"
    /\ raised = "FileNotFoundError"
    /\ input_saved
    /\ strip_languages(args.target_langs) # <<>>
    /\ libreoffice_checked
    /\ ~libreoffice_available

\* C3: when every language succeeds, the keys of the summary's translations
\* are the distinct trimmed language codes of the request, in order of first
\* occurrence.
C3_OneEntryPerLanguage ==
    (pc = "m_done" /\ raised_at = {}) =>
        TranslationKeys = FirstOccurrences(strip_languages(args.target_langs))

\* three languages, the third repeating the first, all succeeded: two entries
C3_Witness ==
    /\ pc = "m_done"
    /\ raised_at = {}
    /\ Len(args.target_langs) = 3
    /\ Len(languages) = 3
    /\ languages[1] = languages[3]
    /\ languages[1] # languages[2]
    /\ Len(translations) = 2

NoRepeats(s) == \A i, j \in DOMAIN s : i # j => s[i] # s[j]

\* C4: translate_pptx_multi invokes translate_pptx, and _libreoffice_convert,
\* at most once for each distinct language code, in order of first
\* occurrence, also when the list it is given repeats a code.
C4_WalkerOncePerLanguage ==
    /\ NoRepeats(walker_calls)
    /\ NoRepeats(convert_calls)
    /\ pc = "m_done" =>
         walker_calls = FirstOccurrences(strip_languages(args.target_langs))

\* C5: a /translate request answers with an artifact only if some language
\* produced an output file; when none did, it answers with an error and no
\* artifact.
C5_ArtifactNeedsOutput ==
    pc = "h_done" =>
        /\ response.status = 200 => saved_at # {}
        /\ saved_at = {} => response.status \in {400, 500} /\ response.artifact = <<"none">>

\* C6: when translate_pptx_multi returns (bundling itself not having failed),
\* the summary's zip_path is set if and only if zip_output is true and some
\* language produced an output file.
C6_ArchiveIffOutput ==
    (pc = "m_done" /\ zip_error \notin Range(errors)) =>
        (zip_path <=> (args.zip_output /\ files # {}))

OutputFormats(language) ==
    LET e == translations[CHOOSE i \in DOMAIN translations :
                              translations[i].language = language]
    IN  {e.outputs[k].format : k \in DOMAIN e.outputs}

OutputPaths(language) ==
    LET e == translations[CHOOSE i \in DOMAIN translations :
                              translations[i].language = language]
    IN  {e.outputs[k].path : k \in DOMAIN e.outputs}

\* what C10 says of every PDF conversion that failed, but for the pptx path
PdfFailureRecorded(l) ==
    /\ ErrorCount(l, "pdf") = Cardinality({i \in pdf_failed_at : languages[i] = l})
    /\ HasEntry(l)
    /\ <<l, PPTX>> \in files

\* C10 as stated: a failed PDF conversion appends one error string naming the
\* language, the language's entry is still recorded with its pptx path, the
\* saved pptx file stays, and the remaining languages are processed.
C10_PdfFailureKeepsPptxPath ==
    /\ \A l \in LanguagesAt(pdf_failed_at) :
         /\ PdfFailureRecorded(l)
         /\ <<l, PPTX>> \in OutputPaths(l)
    /\ pc = "m_done" => walker_calls = languages

\* C10, amended: the entry holds the pptx path exactly when pptx is among the
\* requested formats, and never a pdf path of the failed conversion alone.
C10_PdfFailureRecorded ==
    /\ \A l \in LanguagesAt(pdf_failed_at) :
         /\ PdfFailureRecorded(l)
         /\ <<l, PPTX>> \in OutputPaths(l) <=> InSeq(PPTX, normalized_formats)
    /\ pc = "m_done" => walker_calls = languages

\* the converter exited 0 but no file appeared, for a language that is not the last
C10_Witness ==
    /\ pc = "m_loop"
    /\ step_convert = "nofile"
    /\ idx - 1 \in pdf_failed_at
    /\ idx <= Len(languages)
    /\ InSeq(PPTX, normalized_formats)

\* C9: translate_text returns its input unchanged and calls no provider when
\* the text is blank (whatever the provider), or when the provider is deepl or
\* openai and no API key is supplied.
C9_NoCallWithoutTextOrKey ==
    (adapter.pc = "returned"
       /\ \/ Strip(adapter.text) = <<>>
          \/ Lower(adapter.service) \in {DEEPL, OPENAI} /\ adapter.api_key = NoKey) =>
        /\ adapter.result = adapter.text
        /\ adapter.called = "none"

\* "DeepL" without a key, given a text that is not blank and has blanks around it
C9_Witness ==
    /\ adapter.pc = "returned"
    /\ adapter.service = <<"D", "e", "e", "p", "L">>
    /\ adapter.api_key = NoKey
    /\ Strip(adapter.text) # <<>>
    /\ Strip(adapter.text) # adapter.text
    /\ adapter.result = adapter.text

\* the tiered absolute floor of the band of current_size, in tenths of a point
TieredFloor(current_size, min_size) ==
    IF current_size >= 240 THEN 200
    ELSE IF current_size >= 160 THEN 130
    ELSE IF min_size >= 100 THEN min_size ELSE 100

Overflows(f) ==
    /\ Strip(f.text) # <<>>
    /\ TextEm(f.text) * f.current_size > 11000 * f.max_width

\* C8 as stated: for any input the returned size is never below the tiered
\* absolute floor of the band of current_size.
C8_NeverBelowFloor ==
    fit.pc = "returned" =>
        fit.result.num >= TieredFloor(fit.current_size, fit.min_size) * fit.result.den

\* C8, amended: the returned size is never below the tiered floor whenever
\* the text is not blank and wider than 110% of max_width; for a blank or
\* fitting text it is current_size itself, which is below the floor exactly
\* when current_size is.
C8_NeverBelowFloorWhenShrinking ==
    fit.pc = "returned" =>
        /\ fit.result.den > 0
        /\ Overflows(fit) =>
             fit.result.num >= TieredFloor(fit.current_size, fit.min_size) * fit.result.den
        /\ ~Overflows(fit) => fit.result = [num |-> fit.current_size, den |-> 1]

\* an overflowing 12.0pt text with min_size 11.0: scaling alone would go below
\* the floor, and 11.0 is returned
C8_Witness ==
    /\ fit.pc = "returned"
    /\ Overflows(fit)
    /\ fit.current_size = 120
    /\ fit.min_size = 110
    /\ fit.max_width > 0
    /\ fit.result = [num |-> 110, den |-> 1]

\* C7: a run whose translation fails (the adapter hands back the original
\* text) keeps its original text and is not counted: the count the walker
\* returns is the number of runs that were translated.
C7_CountsOnlyTranslatedRuns ==
    /\ walker.pc \in {"runs", "shape", "returned"} /\ walker.last.outcome = "failed" =>
         walker.last.after = walker.last.before
    /\ walker.pc = "returned" /\ walker.saved => walker.result = walker.succeeded

\* C11: the baseline size the walker passes to calculate_font_size for a
\* container is the size of the container's first non-blank run that has an
\* explicit size, and the default (12.0 for a text frame, 10.0 for a table
\* cell) only when no non-blank run has one; a later run never replaces it.
C11_BaselineIsFirstSizedRun ==
    walker.pc \in {"shape", "returned"} /\ walker.sized =>
        walker.original_size = IF walker.first_sized # 0 THEN walker.first_sized
                               ELSE default_size(walker.kind)

\* C13: calculate_font_size only steps the size down: for every input,
\* the walker's min_size 11.0 and 10.0 included, the returned size is never
\* greater than current_size.
C13_NeverEnlarges ==
    fit.pc = "returned" => fit.result.num <= fit.current_size * fit.result.den

\* C14: when translate_pptx_multi returns, every path recorded under a
\* language's outputs names a file that exists, and a language whose document
\* was never loaded and saved has no pptx path recorded.
C14_RecordedPathsExist ==
    pc = "m_done" =>
        /\ \A i \in DOMAIN translations :
             \A k \in DOMAIN translations[i].outputs :
               translations[i].outputs[k].path \in files
        /\ \A l \in Range(TranslationKeys) \ LanguagesAt(saved_at) :
             <<l, PPTX>> \notin OutputPaths(l)

\* C12: over any sequence of calls of _ensure_libreoffice_available in one
\* process, from the orchestrator and from the exporter, the binary is looked
\* up at most once, and every later call ends as the first did (returns, or
\* raises FileNotFoundError) whatever the binary's availability has become.
C12_LookedUpOnce ==
    probe.pc = "running" =>
        /\ Cardinality({i \in DOMAIN probe.log : probe.log[i].looked_up}) <= 1
        /\ \A i \in DOMAIN probe.log : probe.log[i].raised = probe.log[1].raised

\* the binary was missing at the first call, made by the orchestrator, and is
\* there at a later call made by the exporter, which raises all the same
C12_Witness ==
    /\ probe.pc = "running"
    /\ Len(probe.log) >= 3
    /\ probe.log[1].caller = "translate_pptx_multi"
    /\ ~probe.log[1].resolved
    /\ probe.log[1].looked_up
    /\ \E i \in DOMAIN probe.log :
         /\ i > 1
         /\ probe.log[i].caller = "_libreoffice_convert"
         /\ probe.log[i].resolved
         /\ probe.log[i].raised

\* C15: for any two /translate requests in flight together, uploads of the
\* same file name within one second included, the saved-input path and the
\* output root of one differ from the other's, and nothing done for one
\* request (its saving, its error cleanup, its delayed cleanup thread)
\* overwrites or deletes what another in-flight request is using.
C15_RequestsKeepApart ==
    server.pc = "serving" =>
        /\ \A q, r \in Requests :
             (q # r /\ in_flight(server.reqs[q]) /\ in_flight(server.reqs[r])) =>
                 /\ input_path(server.reqs[q]) # input_path(server.reqs[r])
                 /\ output_root(server.reqs[q]) # output_root(server.reqs[r])
        /\ ~server.clobbered

====
